---- MODULE Spec2Model ----
(***************************************************************************)
(* The session keep-alive of s3/index.js: keepSessionAlive restarts        *)
(* loginWithGoogle for ever; loginWithGoogle fetches the stored snapshot   *)
(* (readS3File), launches a browser, injects the snapshot into the page's  *)
(* localStorage, polls for the login (checkLogin) and then runs the       *)
(* refresh loop (refreshAndGetToken, uploadToS3).                          *)
(*                                                                         *)
(* Text is a sequence of code points, a file or an object body a sequence  *)
(* of bytes; a JavaScript object and the page's localStorage are functions *)
(* from keys (texts) to values (texts).                                    *)
(***************************************************************************)
EXTENDS Naturals, Sequences, FiniteSets

(***************************************************************************)
(* Bounds of the model.                                                    *)
(***************************************************************************)
\* The body stream of a GetObject delivers at most this many chunks.
MaxChunks == 2
\* Browser processes that can be alive at once (a launch beyond it fails).
MaxOpen == 2
\* The callers of getConfig in one process.
MaxCallers == 2

(***************************************************************************)
(* The data the model draws from.                                          *)
(***************************************************************************)
\* localStorage keys: "s", "t" and "__proto__".
KeySid == <<115>>
KeyTok == <<116>>
KeyProto == <<95, 95, 112, 114, 111, 116, 111, 95, 95>>
\* The order in which localStorage.key(i) and for-in enumerate the keys.
KeyOrder == <<KeySid, KeyTok, KeyProto>>
\* The entries the site's scripts write: s = "a", s = e-acute (a two-byte
\* character), t = "a" and __proto__ = "a".
SiteEntries ==
  {<<KeySid, <<97>>>>, <<KeySid, <<233>>>>, <<KeyTok, <<97>>>>, <<KeyProto, <<97>>>>}
EmptyMap == [k \in {} |-> <<>>]

\* A value that may be missing: Some(v), or nothing.
Some(v) == [some |-> TRUE, val |-> v]
\* JavaScript's undefined (a failed fetch, an unset variable).
Undefined == [some |-> FALSE, val |-> <<>>]

(***************************************************************************)
(* UTF-8, as fs.writeFile(..., 'utf-8') encodes and                        *)
(* Buffer.toString("utf-8") decodes (an ill-formed byte gives U+FFFD).     *)
(***************************************************************************)
Utf8Char(cp) ==
  IF cp < 128 THEN <<cp>>
  ELSE IF cp < 2048 THEN <<192 + (cp \div 64), 128 + (cp % 64)>>
  ELSE <<224 + (cp \div 4096), 128 + ((cp \div 64) % 64), 128 + (cp % 64)>>

RECURSIVE Utf8Encode(_)
Utf8Encode(text) ==
  IF text = <<>> THEN <<>>
  ELSE Utf8Char(Head(text)) \o Utf8Encode(Tail(text))

IsCont(bytes, i) == i <= Len(bytes) /\ bytes[i] >= 128 /\ bytes[i] <= 191

RECURSIVE Utf8DecodeFrom(_, _)
Utf8DecodeFrom(bytes, i) ==
  IF i > Len(bytes) THEN <<>>
  ELSE LET b == bytes[i] IN
    IF b < 128 THEN <<b>> \o Utf8DecodeFrom(bytes, i + 1)
    ELSE IF b >= 194 /\ b <= 223 /\ IsCont(bytes, i + 1)
      THEN <<(b - 192) * 64 + (bytes[i + 1] - 128)>> \o Utf8DecodeFrom(bytes, i + 2)
    ELSE IF b >= 224 /\ b <= 239 /\ IsCont(bytes, i + 1) /\ IsCont(bytes, i + 2)
      THEN <<(b - 224) * 4096 + (bytes[i + 1] - 128) * 64 + (bytes[i + 2] - 128)>>
           \o Utf8DecodeFrom(bytes, i + 3)
    ELSE <<65533>> \o Utf8DecodeFrom(bytes, i + 1)

Utf8Decode(bytes) == Utf8DecodeFrom(bytes, 1)

\* Buffer.concat(chunks)
RECURSIVE BufferConcat(_)
BufferConcat(chunks) ==
  IF chunks = <<>> THEN <<>> ELSE Head(chunks) \o BufferConcat(Tail(chunks))

(***************************************************************************)
(* JSON.stringify(data, null, 2) of a flat object of strings, and          *)
(* JSON.parse of a text.  None of the modelled characters needs an escape. *)
(***************************************************************************)
Quoted(s) == <<34>> \o s \o <<34>>

\* One member line: two spaces, "key": "value"
Member(obj, k) == <<32, 32>> \o Quoted(k) \o <<58, 32>> \o Quoted(obj[k])

RECURSIVE Members(_, _, _)
Members(obj, i, first) ==
  IF i > Len(KeyOrder) THEN <<>>
  ELSE IF KeyOrder[i] \in DOMAIN obj
    THEN (IF first THEN <<10>> ELSE <<44, 10>>) \o Member(obj, KeyOrder[i])
         \o Members(obj, i + 1, FALSE)
    ELSE Members(obj, i + 1, first)

JsonStringify(obj) ==
  IF DOMAIN obj = {} THEN <<123, 125>>
  ELSE <<123>> \o Members(obj, 1, TRUE) \o <<10, 125>>

IsWs(c) == c \in {32, 10, 13, 9}

RECURSIVE SkipWs(_, _)
SkipWs(t, i) == IF i <= Len(t) /\ IsWs(t[i]) THEN SkipWs(t, i + 1) ELSE i

\* The index of the quote that closes the string opened before i (0: none).
RECURSIVE CloseQuote(_, _)
CloseQuote(t, i) ==
  IF i > Len(t) THEN 0
  ELSE IF t[i] = 34 THEN i
  ELSE IF t[i] < 32 \/ t[i] = 92 THEN 0
  ELSE CloseQuote(t, i + 1)

\* A string literal at i: [ok, val, next].
ParseString(t, i) ==
  IF i > Len(t) \/ t[i] # 34 THEN [ok |-> FALSE, val |-> <<>>, next |-> i]
  ELSE LET j == CloseQuote(t, i + 1) IN
    IF j = 0 THEN [ok |-> FALSE, val |-> <<>>, next |-> i]
    ELSE [ok |-> TRUE, val |-> SubSeq(t, i + 1, j - 1), next |-> j + 1]

\* obj with the own property k defined as v (a later duplicate wins).
DefineProperty(obj, k, v) ==
  [x \in DOMAIN obj \cup {k} |-> IF x = k THEN v ELSE obj[x]]

\* The members of an object from i on, obj holding those read so far.
RECURSIVE ParseMembers(_, _, _)
ParseMembers(t, i, obj) ==
  LET key == ParseString(t, SkipWs(t, i))
      colon == SkipWs(t, key.next)
      val == ParseString(t, SkipWs(t, colon + 1))
      sep == SkipWs(t, val.next)
  IN
    IF ~key.ok \/ colon > Len(t) \/ t[colon] # 58 THEN [ok |-> FALSE, obj |-> EmptyMap]
    ELSE IF ~val.ok \/ sep > Len(t) THEN [ok |-> FALSE, obj |-> EmptyMap]
    ELSE IF t[sep] = 44 THEN ParseMembers(t, sep + 1, DefineProperty(obj, key.val, val.val))
    ELSE IF t[sep] = 125 /\ SkipWs(t, sep + 1) > Len(t)
      THEN [ok |-> TRUE, obj |-> DefineProperty(obj, key.val, val.val)]
    ELSE [ok |-> FALSE, obj |-> EmptyMap]

\* [ok |-> FALSE, ...] is the SyntaxError JSON.parse throws.
JsonParse(t) ==
  LET open == SkipWs(t, 1) IN
    IF open > Len(t) \/ t[open] # 123 THEN [ok |-> FALSE, obj |-> EmptyMap]
    ELSE LET nxt == SkipWs(t, open + 1) IN
      IF nxt <= Len(t) /\ t[nxt] = 125
        THEN [ok |-> SkipWs(t, nxt + 1) > Len(t), obj |-> EmptyMap]
      ELSE ParseMembers(t, open + 1, EmptyMap)


(***************************************************************************)
(* The page: localStorage and the URL.                                     *)
(***************************************************************************)
\* localStorage.setItem(k, v)
SetItem(st, k, v) == [x \in DOMAIN st \cup {k} |-> IF x = k THEN v ELSE st[x]]

\* localStorage.removeItem(k)
RemoveItem(st, k) == [x \in DOMAIN st \ {k} |-> st[x]]

\* What the site's own scripts may do to localStorage during one page load:
\* nothing, one setItem or one removeItem.
SiteEffect(st) ==
  {st} \cup {SetItem(st, e[1], e[2]) : e \in SiteEntries}
       \cup {RemoveItem(st, k) : k \in DOMAIN st}

\* data[key] = value on a plain object: for the key "__proto__" the assignment
\* runs Object.prototype's __proto__ setter, which ignores a string, and the
\* object gets no own property.
AssignProperty(obj, k, v) ==
  IF k = KeyProto THEN obj ELSE DefineProperty(obj, k, v)

\* The in-page function of the capture: data = {}; for each index i,
\* data[localStorage.key(i)] = localStorage.getItem(...).
RECURSIVE CaptureFrom(_, _, _)
CaptureFrom(st, i, data) ==
  IF i > Len(KeyOrder) THEN data
  ELSE IF KeyOrder[i] \in DOMAIN st
    THEN CaptureFrom(st, i + 1, AssignProperty(data, KeyOrder[i], st[KeyOrder[i]]))
    ELSE CaptureFrom(st, i + 1, data)

Capture(st) == CaptureFrom(st, 1, EmptyMap)

\* SetItemsFrom leaving the loop after the first key.
RECURSIVE SetItemsFirstOnly(_, _, _)
SetItemsFirstOnly(st, data, i) ==
  IF i > Len(KeyOrder) THEN st
  ELSE IF KeyOrder[i] \in DOMAIN data
    THEN SetItem(st, KeyOrder[i], data[KeyOrder[i]])
    ELSE SetItemsFirstOnly(st, data, i + 1)

\* for (let key in data) localStorage.setItem(key, data[key])
RECURSIVE SetItemsFrom(_, _, _)
SetItemsFrom(st, data, i) ==
  IF i > Len(KeyOrder) THEN st
  ELSE IF KeyOrder[i] \in DOMAIN data
    THEN SetItemsFrom(SetItem(st, KeyOrder[i], data[KeyOrder[i]]), data, i + 1)
    ELSE SetItemsFrom(st, data, i + 1)

\* The in-page function of the restore: a text that does not parse is logged
\* and leaves localStorage as it was.
InjectStorage(st, text) ==
  LET parsed == JsonParse(text) IN
    IF parsed.ok THEN SetItemsFrom(st, parsed.obj, 1) ELSE st

\* String.prototype.includes
Includes(s, sub) ==
  \E i \in 1..(Len(s) + 1) :
    i + Len(sub) - 1 <= Len(s) /\ SubSeq(s, i, i + Len(sub) - 1) = sub

\* config.WEBSITE_URL "w/" and config.TARGET_URL "t/"
WEBSITE_URL == <<119, 47>>
TARGET_URL == <<116, 47>>
\* Where a navigation to TARGET_URL may end: "t/x" (below the target), "l/"
\* (sent to the login page) and "t" (a prefix of the target).
PageUrls == {<<116, 47, 120>>, <<108, 47>>, <<116>>}

(***************************************************************************)
(* The object store and the scratch file.                                  *)
(***************************************************************************)
\* An object or a file that does not exist.
Absent == [some |-> FALSE, val |-> <<>>]

\* The ways a body stream may cut its bytes into at most n non-empty chunks.
RECURSIVE Splits(_, _)
Splits(bytes, n) ==
  IF bytes = <<>> THEN {<<>>}
  ELSE IF n <= 1 THEN {<<bytes>>}
  ELSE {<<bytes>>} \cup
       UNION {{<<SubSeq(bytes, 1, i)>> \o rest :
                 rest \in Splits(SubSeq(bytes, i + 1, Len(bytes)), n - 1)} :
              i \in 1..(Len(bytes) - 1)}

\* What the remote object may hold when the process starts: nothing, an empty
\* body, a text that is no JSON ("x"), or the snapshot of an earlier run.
InitialRemotes ==
  {Absent, Some(<<>>), Some(<<120>>),
   Some(Utf8Encode(JsonStringify(SetItem(SetItem(EmptyMap, KeySid, <<233>>), KeyTok, <<97>>))))}


(***************************************************************************)
(* The state.                                                              *)
(***************************************************************************)
VARIABLES
  pc,               \* the statement the one asynchronous control flow waits at
  remote,           \* the object at SPACE_BUCKET/SPACE_PATH: Some(bytes), or Absent
  scratch,          \* ./localStorage.json: Some(bytes), or Absent
  body,             \* readS3File: the chunks the Body stream has still to deliver
  chunks,           \* readS3File: the chunks received so far
  fileContent,      \* loginWithGoogle: Some(the fetched text), or Undefined
  browser,          \* loginWithGoogle: "browser" once launched, else "undefined"
  open,             \* the number of browser processes alive
  pageClosed,       \* page.isClosed()
  storage,          \* the page's localStorage
  url,              \* page.url()
  localStorageData, \* refreshAndGetToken: Some(the captured object), or Undefined
  fileBuffer,       \* uploadToS3: Some(the scratch file's bytes), or Undefined
  cycle,            \* the refresh cycle under way or just ended:
                    \* "none", "ok" (no step failed), "failed" or "skipped"
  orphans,          \* the browser processes alive that no attempt holds: each
                    \* was left open by a browser.close() that rejected
  configPromise,    \* config.js: "undefined", "pending" or "fulfilled"
  loadRuns,         \* the number of times loadConfig has run
  readCount,        \* per secret, the number of fs.readFile calls issued
  secretRead,       \* per secret, the readSecret call: [st, val]
  config,           \* the record configPromise is fulfilled with
  callers           \* per caller of getConfig: [st, got]

vars == <<pc, remote, scratch, body, chunks, fileContent, browser, open,
          pageClosed, storage, url, localStorageData, fileBuffer, cycle,
          orphans, configPromise, loadRuns, readCount, secretRead, config,
          callers>>

\* The state of s3/index.js and the state of s3/config.js.
driver == <<pc, remote, scratch, body, chunks, fileContent, browser, open,
            pageClosed, storage, url, localStorageData, fileBuffer, cycle,
            orphans>>
cfg == <<configPromise, loadRuns, readCount, secretRead, config, callers>>

store == <<remote, scratch>>
stream == <<body, chunks>>
page == <<pageClosed, storage, url>>
locals == <<localStorageData, fileBuffer>>

(***************************************************************************)
(* The data of s3/config.js and s3/utils/secrets.js.                       *)
(***************************************************************************)
\* The secrets loadConfig reads, by name.
Secrets ==
  {"website_url", "target_url", "space_bucket", "space_region", "space_key",
   "space_secret", "space_path", "space_endpoint"}

Callers == 1..MaxCallers

\* JavaScript's null (the field of a secret that could not be read).
Null == [some |-> FALSE, val |-> <<>>]

\* What a secret file that can be read holds: " v" and a line feed.
SecretFiles == {<<32, 118, 10>>}

RECURSIVE TrimStart(_)
TrimStart(t) == IF t # <<>> /\ IsWs(Head(t)) THEN TrimStart(Tail(t)) ELSE t

RECURSIVE TrimEnd(_)
TrimEnd(t) ==
  IF t # <<>> /\ IsWs(t[Len(t)]) THEN TrimEnd(SubSeq(t, 1, Len(t) - 1)) ELSE t

\* String.prototype.trim
Trim(t) == TrimEnd(TrimStart(t))

\* config.js as loaded: configPromise unset, no secret read, no caller yet.
ConfigUnset ==
  /\ configPromise = "undefined"
  /\ loadRuns = 0
  /\ readCount = [s \in Secrets |-> 0]
  /\ secretRead = [s \in Secrets |-> [st |-> "idle", val |-> Null]]
  /\ config = [s \in Secrets |-> Null]
  /\ callers = [c \in Callers |-> [st |-> "idle", got |-> [s \in Secrets |-> Null]]]

Init ==
  /\ pc = "ks_call"
  /\ remote \in InitialRemotes
  /\ scratch = Absent
  /\ body = <<>>
  /\ chunks = <<>>
  /\ fileContent = Undefined
  /\ browser = "undefined"
  /\ open = 0
  /\ pageClosed = FALSE
  /\ storage = EmptyMap
  /\ url = <<>>
  /\ localStorageData = Undefined
  /\ fileBuffer = Undefined
  /\ cycle = "none"
  /\ orphans = 0
  /\ ConfigUnset

\* The page phases: a page exists from newPage until the attempt ends.
PagePcs ==
  {"configure", "goto_site", "inject", "cl_sleep", "cl_goto", "cl_test",
   "rf_guard", "rf_reload", "rf_settle", "rf_capture", "rf_write", "up_read",
   "up_send", "up_catch", "rf_token", "rf_catch", "rf_wait"}

(***************************************************************************)
(* keepSessionAlive                                                        *)
(***************************************************************************)
\* KsCall without the fetch first: the browser is launched at once.
KsCallLaunchFirst ==
  /\ pc = "ks_call"
  /\ pc' = "launch"
  /\ browser' = "undefined"
  /\ fileContent' = Undefined
  /\ UNCHANGED <<store, stream, open, page, locals, cycle>>
  /\ UNCHANGED <<orphans, cfg>>

\* try { await loginWithGoogle() }: the call, with the attempt's fresh locals.
KsCall ==
  /\ pc = "ks_call"
  /\ pc' = "read_send"
  /\ browser' = "undefined"
  /\ fileContent' = Undefined
  /\ UNCHANGED <<store, stream, open, page, locals, cycle>>
  /\ UNCHANGED <<orphans, cfg>>

\* KsCatch without the try: the rejection leaves keepSessionAlive and ends
\* the process.
KsCatchRethrow ==
  /\ pc = "ks_catch"
  /\ pc' = "crashed"
  /\ UNCHANGED <<store, stream, fileContent, browser, open, page, locals, cycle>>
  /\ UNCHANGED <<orphans, cfg>>

\* catch (err) { console.error("Session crashed:", err) }
KsCatch ==
  /\ pc = "ks_catch"
  /\ pc' = "ks_restart"
  /\ UNCHANGED <<store, stream, fileContent, browser, open, page, locals, cycle>>
  /\ UNCHANGED <<orphans, cfg>>

\* console.log("Restarting session in 10 seconds..."); the 10 s timer; loop.
KsRestart ==
  /\ pc = "ks_restart"
  /\ pc' = "ks_call"
  /\ UNCHANGED <<store, stream, fileContent, browser, open, page, locals, cycle>>
  /\ UNCHANGED <<orphans, cfg>>

(***************************************************************************)
(* readS3File                                                              *)
(***************************************************************************)
\* await s3Client.send(GetObjectCommand): the Body stream of an object that
\* exists, or a rejection (no such key, network, credentials).
ReadSend ==
  /\ pc = "read_send"
  /\ \/ /\ remote # Absent
        /\ body' \in Splits(remote.val, MaxChunks)
        /\ pc' = "read_stream"
     \/ /\ body' = <<>>
        /\ pc' = "read_catch"
  /\ chunks' = <<>>
  /\ UNCHANGED <<store, fileContent, browser, open, page, locals, cycle>>
  /\ UNCHANGED <<orphans, cfg>>

\* stream.on("data", chunk => chunks.push(chunk))
ReadData ==
  /\ pc = "read_stream"
  /\ body # <<>>
  /\ chunks' = Append(chunks, Head(body))
  /\ body' = Tail(body)
  /\ UNCHANGED <<pc, store, fileContent, browser, open, page, locals, cycle>>
  /\ UNCHANGED <<orphans, cfg>>

\* StreamText decoding each chunk on its own and joining the texts.
RECURSIVE StreamTextPerChunk(_)
StreamTextPerChunk(cs) ==
  IF cs = <<>> THEN <<>> ELSE Utf8Decode(Head(cs)) \o StreamTextPerChunk(Tail(cs))

\* The text the "end" handler resolves with.
StreamText(cs) == Utf8Decode(BufferConcat(cs))

\* stream.on("end", ...): resolve; readS3File returns the text.
ReadEnd ==
  /\ pc = "read_stream"
  /\ body = <<>>
  /\ fileContent' = Some(StreamText(chunks))
  /\ chunks' = <<>>
  /\ pc' = "lg_check"
  /\ UNCHANGED <<store, body, browser, open, page, locals, cycle>>
  /\ UNCHANGED <<orphans, cfg>>

\* stream.on("error", reject)
ReadError ==
  /\ pc = "read_stream"
  /\ pc' = "read_catch"
  /\ body' = <<>>
  /\ chunks' = <<>>
  /\ UNCHANGED <<store, fileContent, browser, open, page, locals, cycle>>
  /\ UNCHANGED <<orphans, cfg>>

\* ReadCatch throwing the error on: loginWithGoogle awaits readS3File outside
\* its try, so the rejection reaches the catch of keepSessionAlive.
ReadCatchRethrow ==
  /\ pc = "read_catch"
  /\ pc' = "ks_catch"
  /\ UNCHANGED <<store, stream, fileContent, browser, open, page, locals, cycle>>
  /\ UNCHANGED <<orphans, cfg>>

\* catch (err) { console.error(...) }: readS3File returns undefined.
ReadCatch ==
  /\ pc = "read_catch"
  /\ fileContent' = Undefined
  /\ pc' = "lg_check"
  /\ UNCHANGED <<store, stream, browser, open, page, locals, cycle>>
  /\ UNCHANGED <<orphans, cfg>>


(***************************************************************************)
(* loginWithGoogle                                                         *)
(***************************************************************************)
\* !fileContent: undefined and the empty string are falsy.
Falsy(content) == ~content.some \/ content.val = <<>>

\* LgCheck without the early return.
LgCheckNoReturn ==
  /\ pc = "lg_check"
  /\ pc' = "launch"
  /\ UNCHANGED <<store, stream, fileContent, browser, open, page, locals, cycle>>
  /\ UNCHANGED <<orphans, cfg>>

\* if (!fileContent) return;  (before the try: no catch, no finally)
LgCheck ==
  /\ pc = "lg_check"
  /\ pc' = IF Falsy(fileContent) THEN "ks_restart" ELSE "launch"
  /\ UNCHANGED <<store, stream, fileContent, browser, open, page, locals, cycle>>
  /\ UNCHANGED <<orphans, cfg>>

\* browser = await puppeteer.launch(...), or a rejection.
Launch ==
  /\ pc = "launch"
  /\ \/ /\ open < MaxOpen
        /\ browser' = "browser"
        /\ open' = open + 1
        /\ pc' = "new_page"
     \/ /\ pc' = "lg_catch"
        /\ UNCHANGED <<browser, open>>
  /\ UNCHANGED <<store, stream, fileContent, page, locals, cycle>>
  /\ UNCHANGED <<orphans, cfg>>

\* const page = await browser.newPage(): a blank page of a fresh profile.
NewPage ==
  /\ pc = "new_page"
  /\ \/ /\ pc' = "configure"
        /\ pageClosed' = FALSE
        /\ storage' = EmptyMap
        /\ url' = <<>>
     \/ /\ pc' = "lg_catch"
        /\ UNCHANGED page
  /\ UNCHANGED <<store, stream, fileContent, browser, open, locals, cycle>>
  /\ UNCHANGED <<orphans, cfg>>

\* setDefaultNavigationTimeout, setDefaultTimeout, setExtraHTTPHeaders,
\* setViewport: each needs the page open, and any of them may reject.
Configure ==
  /\ pc = "configure"
  /\ \/ ~pageClosed /\ pc' = "goto_site"
     \/ pc' = "lg_catch"
  /\ UNCHANGED <<store, stream, fileContent, browser, open, page, locals, cycle>>
  /\ UNCHANGED <<orphans, cfg>>

\* await page.goto(config.WEBSITE_URL, { waitUntil: 'load' })
GotoSite ==
  /\ pc = "goto_site"
  /\ \/ /\ ~pageClosed
        /\ storage' \in SiteEffect(storage)
        /\ url' = WEBSITE_URL
        /\ pc' = "inject"
     \/ /\ pc' = "lg_catch"
        /\ UNCHANGED <<storage, url>>
  /\ UNCHANGED <<store, stream, fileContent, browser, open, pageClosed, locals, cycle>>
  /\ UNCHANGED <<orphans, cfg>>

\* Inject without the try inside the in-page function: the SyntaxError of
\* JSON.parse rejects the evaluate.
InjectAbortOnParseError ==
  /\ pc = "inject"
  /\ \/ /\ ~pageClosed
        /\ JsonParse(fileContent.val).ok
        /\ storage' = InjectStorage(storage, fileContent.val)
        /\ pc' = "cl_sleep"
     \/ /\ pc' = "lg_catch"
        /\ UNCHANGED storage
  /\ UNCHANGED <<store, stream, fileContent, browser, open, pageClosed, url, locals, cycle>>
  /\ UNCHANGED <<orphans, cfg>>

\* await page.evaluate(storage => { ... }, fileContent)
Inject ==
  /\ pc = "inject"
  /\ \/ /\ ~pageClosed
        /\ storage' = InjectStorage(storage, fileContent.val)
        /\ pc' = "cl_sleep"
     \/ /\ pc' = "lg_catch"
        /\ UNCHANGED storage
  /\ UNCHANGED <<store, stream, fileContent, browser, open, pageClosed, url, locals, cycle>>
  /\ UNCHANGED <<orphans, cfg>>

\* LgCatch without the finally after it: the attempt returns with its
\* browser open.
LgCatchNoFinally ==
  /\ pc = "lg_catch"
  /\ pc' = "ks_restart"
  /\ UNCHANGED <<store, stream, fileContent, browser, open, page, locals, cycle>>
  /\ UNCHANGED <<orphans, cfg>>

\* catch (error) { console.error("Error during login:", error) }
LgCatch ==
  /\ pc = "lg_catch"
  /\ pc' = "lg_finally"
  /\ UNCHANGED <<store, stream, fileContent, browser, open, page, locals, cycle>>
  /\ UNCHANGED <<orphans, cfg>>

\* LgFinally without the close.
LgFinallyNoClose ==
  /\ pc = "lg_finally"
  /\ pc' = "ks_restart"
  /\ pageClosed' = FALSE
  /\ storage' = EmptyMap
  /\ url' = <<>>
  /\ localStorageData' = Undefined
  /\ fileBuffer' = Undefined
  /\ cycle' = "none"
  /\ UNCHANGED <<store, stream, fileContent, browser, open>>
  /\ UNCHANGED <<orphans, cfg>>

\* finally { if (browser && browser.close) await browser.close() }: nothing to
\* close, a close that releases the browser, or a close that rejects (the
\* browser process then may or may not be gone) and throws to the caller.
LgFinally ==
  /\ pc = "lg_finally"
  /\ \/ /\ browser = "undefined"
        /\ pc' = "ks_restart"
        /\ UNCHANGED <<open, orphans>>
     \/ /\ browser # "undefined"
        /\ \/ /\ open' = open - 1
              /\ pc' = "ks_restart"
              /\ UNCHANGED orphans
           \/ /\ open' = open - 1
              /\ pc' = "ks_catch"
              /\ UNCHANGED orphans
           \/ /\ open' = open
              /\ pc' = "ks_catch"
              /\ orphans' = orphans + 1
  /\ pageClosed' = FALSE
  /\ storage' = EmptyMap
  /\ url' = <<>>
  /\ localStorageData' = Undefined
  /\ fileBuffer' = Undefined
  /\ cycle' = "none"
  /\ UNCHANGED <<store, stream, fileContent, browser>>
  /\ UNCHANGED cfg

(***************************************************************************)
(* checkLogin                                                              *)
(***************************************************************************)
\* await new Promise(resolve => setTimeout(resolve, 10000))
ClSleep ==
  /\ pc = "cl_sleep"
  /\ pc' = "cl_goto"
  /\ UNCHANGED <<store, stream, fileContent, browser, open, page, locals, cycle>>
  /\ UNCHANGED <<orphans, cfg>>

\* ClGoto with the rejection caught inside checkLogin: the poll goes on.
ClGotoCaught ==
  /\ pc = "cl_goto"
  /\ \/ /\ ~pageClosed
        /\ url' \in PageUrls
        /\ storage' \in SiteEffect(storage)
        /\ pc' = "cl_test"
     \/ /\ pc' = "cl_sleep"
        /\ UNCHANGED <<storage, url>>
  /\ UNCHANGED <<store, stream, fileContent, browser, open, pageClosed, locals, cycle>>
  /\ UNCHANGED <<orphans, cfg>>

\* await page.goto(config.TARGET_URL, { waitUntil: 'load' }): the page ends at
\* some URL, or the navigation rejects, which checkLogin does not catch.
ClGoto ==
  /\ pc = "cl_goto"
  /\ \/ /\ ~pageClosed
        /\ url' \in PageUrls
        /\ storage' \in SiteEffect(storage)
        /\ pc' = "cl_test"
     \/ /\ pc' = "lg_catch"
        /\ UNCHANGED <<storage, url>>
  /\ UNCHANGED <<store, stream, fileContent, browser, open, pageClosed, locals, cycle>>
  /\ UNCHANGED <<orphans, cfg>>

\* LoggedIn comparing the whole URL.
LoggedInExact(u) == u = TARGET_URL

\* page.url().includes(config.TARGET_URL)
LoggedIn(u) == Includes(u, TARGET_URL)

\* ClTest returning whatever the URL is.
ClTestNoCheck ==
  /\ pc = "cl_test"
  /\ pc' = "rf_guard"
  /\ UNCHANGED <<store, stream, fileContent, browser, open, page, locals, cycle>>
  /\ UNCHANGED <<orphans, cfg>>

\* if (...) return; else the next iteration.
ClTest ==
  /\ pc = "cl_test"
  /\ pc' = IF LoggedIn(url) THEN "rf_guard" ELSE "cl_sleep"
  /\ UNCHANGED <<store, stream, fileContent, browser, open, page, locals, cycle>>
  /\ UNCHANGED <<orphans, cfg>>


(***************************************************************************)
(* refreshAndGetToken and uploadToS3                                       *)
(***************************************************************************)
\* RfGuard throwing on a closed page instead of returning.
RfGuardThrowOnClosed ==
  /\ pc = "rf_guard"
  /\ IF pageClosed
       THEN pc' = "lg_catch" /\ cycle' = "skipped"
       ELSE pc' = "rf_reload" /\ cycle' = "ok"
  /\ UNCHANGED <<store, stream, fileContent, browser, open, page, locals>>
  /\ UNCHANGED <<orphans, cfg>>

\* if (!page || page.isClosed()) { console.error(...); return; }
RfGuard ==
  /\ pc = "rf_guard"
  /\ IF pageClosed
       THEN pc' = "rf_wait" /\ cycle' = "skipped"
       ELSE pc' = "rf_reload" /\ cycle' = "ok"
  /\ UNCHANGED <<store, stream, fileContent, browser, open, page, locals>>
  /\ UNCHANGED <<orphans, cfg>>

\* await page.reload({ waitUntil: "domcontentloaded" })
RfReload ==
  /\ pc = "rf_reload"
  /\ \/ /\ ~pageClosed
        /\ storage' \in SiteEffect(storage)
        /\ pc' = "rf_settle"
        /\ UNCHANGED cycle
     \/ /\ pc' = "rf_catch"
        /\ cycle' = "failed"
        /\ UNCHANGED storage
  /\ UNCHANGED <<store, stream, fileContent, browser, open, pageClosed, url, locals>>
  /\ UNCHANGED <<orphans, cfg>>

\* await new Promise(resolve => setTimeout(resolve, 2000))
RfSettle ==
  /\ pc = "rf_settle"
  /\ pc' = "rf_capture"
  /\ UNCHANGED <<store, stream, fileContent, browser, open, page, locals, cycle>>
  /\ UNCHANGED <<orphans, cfg>>

\* const localStorageData = await page.evaluate(() => { ... })
RfCapture ==
  /\ pc = "rf_capture"
  /\ \/ /\ ~pageClosed
        /\ localStorageData' = Some(Capture(storage))
        /\ pc' = "rf_write"
        /\ UNCHANGED cycle
     \/ /\ pc' = "rf_catch"
        /\ cycle' = "failed"
        /\ UNCHANGED localStorageData
  /\ UNCHANGED <<store, stream, fileContent, browser, open, page, fileBuffer>>
  /\ UNCHANGED <<orphans, cfg>>

\* The bytes fs.writeFile(path, JSON.stringify(data, null, 2), 'utf-8') writes.
ScratchBytes(data) == Utf8Encode(JsonStringify(data))

\* RfWrite with the rejection of the write swallowed: the cycle goes on to
\* the upload with the scratch file as it was.
RfWriteIgnoreFailure ==
  /\ pc = "rf_write"
  /\ \/ scratch' = Some(ScratchBytes(localStorageData.val))
     \/ UNCHANGED scratch
  /\ pc' = "up_read"
  /\ UNCHANGED <<remote, stream, fileContent, browser, open, page, locals, cycle>>
  /\ UNCHANGED <<orphans, cfg>>

\* await fs.writeFile('./localStorage.json', ...): the file is written, or the
\* write rejects.
RfWrite ==
  /\ pc = "rf_write"
  /\ \/ /\ scratch' = Some(ScratchBytes(localStorageData.val))
        /\ pc' = "up_read"
        /\ UNCHANGED cycle
     \/ /\ UNCHANGED scratch
        /\ pc' = "rf_catch"
        /\ cycle' = "failed"
  /\ UNCHANGED <<remote, stream, fileContent, browser, open, page, locals>>
  /\ UNCHANGED <<orphans, cfg>>

\* uploadToS3: const fileBuffer = await fs.readFile('./localStorage.json'),
\* before the try: a rejection goes to the caller.
UpRead ==
  /\ pc = "up_read"
  /\ \/ /\ scratch # Absent
        /\ fileBuffer' = scratch
        /\ pc' = "up_send"
        /\ UNCHANGED cycle
     \/ /\ pc' = "rf_catch"
        /\ cycle' = "failed"
        /\ UNCHANGED fileBuffer
  /\ UNCHANGED <<store, stream, fileContent, browser, open, page, localStorageData>>
  /\ UNCHANGED <<orphans, cfg>>

\* uploadToS3: try { await s3Client.send(PutObjectCommand) ... }
UpSend ==
  /\ pc = "up_send"
  /\ \/ /\ remote' = fileBuffer
        /\ pc' = "rf_token"
        /\ UNCHANGED cycle
     \/ /\ pc' = "up_catch"
        /\ cycle' = "failed"
        /\ UNCHANGED remote
  /\ UNCHANGED <<scratch, stream, fileContent, browser, open, page, locals>>
  /\ UNCHANGED <<orphans, cfg>>

\* uploadToS3: catch (err) { console.error(...) }, and a normal return.
UpCatch ==
  /\ pc = "up_catch"
  /\ pc' = "rf_token"
  /\ UNCHANGED <<store, stream, fileContent, browser, open, page, locals, cycle>>
  /\ UNCHANGED <<orphans, cfg>>

\* const token = await page.evaluate(() => localStorage.getItem(...) || '')
RfToken ==
  /\ pc = "rf_token"
  /\ \/ /\ ~pageClosed
        /\ pc' = "rf_wait"
        /\ UNCHANGED cycle
     \/ /\ pc' = "rf_catch"
        /\ cycle' = "failed"
  /\ localStorageData' = Undefined
  /\ fileBuffer' = Undefined
  /\ UNCHANGED <<store, stream, fileContent, browser, open, page>>
  /\ UNCHANGED <<orphans, cfg>>

\* RfCatch throwing the error on, to loginWithGoogle.
RfCatchRethrow ==
  /\ pc = "rf_catch"
  /\ pc' = "lg_catch"
  /\ localStorageData' = Undefined
  /\ fileBuffer' = Undefined
  /\ UNCHANGED <<store, stream, fileContent, browser, open, page, cycle>>
  /\ UNCHANGED <<orphans, cfg>>

\* catch (error) { console.error("Error during token retrieval:", error) }
RfCatch ==
  /\ pc = "rf_catch"
  /\ pc' = "rf_wait"
  /\ localStorageData' = Undefined
  /\ fileBuffer' = Undefined
  /\ UNCHANGED <<store, stream, fileContent, browser, open, page, cycle>>
  /\ UNCHANGED <<orphans, cfg>>

\* RfWait with the loop left after the first cycle: loginWithGoogle goes on
\* to its finally.
RfWaitReturn ==
  /\ pc = "rf_wait"
  /\ pc' = "lg_finally"
  /\ UNCHANGED <<store, stream, fileContent, browser, open, page, locals, cycle>>
  /\ UNCHANGED <<orphans, cfg>>

\* await new Promise(resolve => setTimeout(resolve, REFRESH_INTERVAL)); loop.
RfWait ==
  /\ pc = "rf_wait"
  /\ pc' = "rf_guard"
  /\ UNCHANGED <<store, stream, fileContent, browser, open, page, locals, cycle>>
  /\ UNCHANGED <<orphans, cfg>>

(***************************************************************************)
(* The environment.                                                        *)
(***************************************************************************)
\* The page is closed under the driver (a crashed or closed tab).
PageCrash ==
  /\ pc \in PagePcs
  /\ ~pageClosed
  /\ pageClosed' = TRUE
  /\ UNCHANGED <<pc, store, stream, fileContent, browser, open, storage, url,
                 locals, cycle>>
  /\ UNCHANGED <<orphans, cfg>>

\* The container's restart policy: the process dies (killed, out of memory,
\* crashed) and is started again in a new container.  The object store keeps
\* the object; the scratch file is gone with the old container.
ProcessRestart ==
  /\ pc' = "ks_call"
  /\ scratch' = Absent
  /\ body' = <<>>
  /\ chunks' = <<>>
  /\ fileContent' = Undefined
  /\ browser' = "undefined"
  /\ open' = 0
  /\ pageClosed' = FALSE
  /\ storage' = EmptyMap
  /\ url' = <<>>
  /\ localStorageData' = Undefined
  /\ fileBuffer' = Undefined
  /\ cycle' = "none"
  /\ orphans' = 0
  /\ UNCHANGED <<remote, cfg>>

(***************************************************************************)
(* getConfig, loadConfig and readSecret                                    *)
(***************************************************************************)
\* loadConfig up to its await: the array of Promise.all is built, each
\* readSecret(name) running up to its own await of fs.readFile.
LoadConfig ==
  /\ loadRuns' = loadRuns + 1
  /\ readCount' = [s \in Secrets |-> readCount[s] + 1]
  /\ secretRead' = [s \in Secrets |-> [st |-> "reading", val |-> Null]]
  /\ configPromise' = "pending"

\* GetConfig without the test of configPromise: every call runs loadConfig.
GetConfigNoMemo(c) ==
  /\ callers[c].st = "idle"
  /\ LoadConfig
  /\ callers' = [callers EXCEPT ![c].st = "awaiting"]
  /\ UNCHANGED <<config, driver>>

\* if (!configPromise) configPromise = loadConfig(); return configPromise;
\* and the caller awaits the promise returned.
GetConfig(c) ==
  /\ callers[c].st = "idle"
  /\ IF configPromise = "undefined"
       THEN LoadConfig
       ELSE UNCHANGED <<configPromise, loadRuns, readCount, secretRead>>
  /\ callers' = [callers EXCEPT ![c].st = "awaiting"]
  /\ UNCHANGED <<config, driver>>

\* readSecret after its await: try { return data.trim() } catch { warn;
\* return null }.
ReadSecret(s) ==
  /\ secretRead[s].st = "reading"
  /\ \E outcome \in {Some(Trim(f)) : f \in SecretFiles} \cup {Null} :
       secretRead' = [secretRead EXCEPT ![s] = [st |-> "done", val |-> outcome]]
  /\ UNCHANGED <<configPromise, loadRuns, readCount, config, callers, driver>>

\* loadConfig after Promise.all: return { WEBSITE_URL, ... }, which fulfils
\* configPromise.
LoadConfigReturn ==
  /\ configPromise = "pending"
  /\ \A s \in Secrets : secretRead[s].st = "done"
  /\ config' = [s \in Secrets |-> secretRead[s].val]
  /\ configPromise' = "fulfilled"
  /\ UNCHANGED <<loadRuns, readCount, secretRead, callers, driver>>

\* A caller's await of the promise resumes with the record.
Receive(c) ==
  /\ callers[c].st = "awaiting"
  /\ configPromise = "fulfilled"
  /\ callers' = [callers EXCEPT ![c] = [st |-> "done", got |-> config]]
  /\ UNCHANGED <<configPromise, loadRuns, readCount, secretRead, config, driver>>

Next ==
  \/ KsCall \/ KsCatch \/ KsRestart
  \/ ReadSend \/ ReadData \/ ReadEnd \/ ReadError \/ ReadCatch
  \/ LgCheck \/ Launch \/ NewPage \/ Configure \/ GotoSite \/ Inject
  \/ LgCatch \/ LgFinally
  \/ ClSleep \/ ClGoto \/ ClTest
  \/ RfGuard \/ RfReload \/ RfSettle \/ RfCapture \/ RfWrite
  \/ UpRead \/ UpSend \/ UpCatch \/ RfToken \/ RfCatch \/ RfWait
  \/ PageCrash \/ ProcessRestart

Spec == Init /\ [][Next]_vars

\* The timers of keepSessionAlive fire and its awaits of settled promises
\* resume: the supervisor's own steps are not postponed for ever.
FairSpec == Spec /\ WF_vars(KsCatch) /\ WF_vars(KsRestart) /\ WF_vars(KsCall)

\* The resolution of the configuration on its own, before the driver starts.
ConfigInit == Init /\ remote = Absent

ConfigNext ==
  \/ \E c \in Callers : GetConfig(c)
  \/ \E s \in Secrets : ReadSecret(s)
  \/ LoadConfigReturn
  \/ \E c \in Callers : Receive(c)

ConfigSpec == ConfigInit /\ [][ConfigNext]_vars

\* A step of the refresh loop: a statement of refreshAndGetToken or of
\* uploadToS3, or the wait between two cycles.
RefreshStep ==
  \/ RfGuard \/ RfReload \/ RfSettle \/ RfCapture \/ RfWrite
  \/ UpRead \/ UpSend \/ UpCatch \/ RfToken \/ RfCatch \/ RfWait

\* The timers of the refresh loop fire and each of its page, file and network
\* operations settles (fulfilled or rejected).
RefreshFairSpec == Spec /\ WF_vars(RefreshStep)


(***************************************************************************)
(* The phases of an attempt.                                               *)
(***************************************************************************)
SupervisorPcs == {"ks_call", "ks_catch", "ks_restart"}
FetchPcs == {"read_send", "read_stream", "read_catch", "lg_check"}
LaunchPcs == {"launch", "new_page", "configure"}
RestorePcs == {"goto_site", "inject"}
AwaitPcs == {"cl_sleep", "cl_goto", "cl_test"}
RefreshPcs ==
  {"rf_guard", "rf_reload", "rf_settle", "rf_capture", "rf_write", "up_read",
   "up_send", "up_catch", "rf_token", "rf_catch", "rf_wait"}
UploadPcs == {"up_read", "up_send", "up_catch"}
TerminatedPcs == {"lg_catch", "lg_finally"}

\* A step of the environment, not of the program.
EnvStep == ProcessRestart \/ PageCrash

(***************************************************************************)
(* The claims.                                                             *)
(***************************************************************************)

\* C1: a step of a refresh cycle that fails (reload, capture, scratch-file
\* write, scratch-file read, upload, token read) never takes the driver out
\* of the refresh loop: the failure is caught, refreshAndGetToken returns,
\* the refresh interval is waited and the next cycle begins.
C1_FailedCycleStaysInLoop ==
  [][(pc \in RefreshPcs /\ cycle' = "failed" /\ ~EnvStep)
       => /\ pc' \in RefreshPcs
          /\ pc = "rf_catch" => pc' = "rf_wait"
          /\ pc = "up_catch" => pc' = "rf_token"
          /\ pc = "rf_wait" => pc' = "rf_guard"]_vars

\* C1's case: a cycle failed and the next one is beginning.
C1_Witness == pc = "rf_guard" /\ cycle = "failed"

\* The steps of an attempt that finds no remote object: the fetch is rejected,
\* readS3File returns undefined, loginWithGoogle returns, keepSessionAlive
\* waits and calls again.
AbsentPath ==
  {<<"ks_call", "read_send">>, <<"read_send", "read_catch">>,
   <<"read_catch", "lg_check">>, <<"lg_check", "ks_restart">>,
   <<"ks_restart", "ks_call">>}

\* C2: while the remote object is absent, an attempt ends by a normal return
\* of loginWithGoogle (never in the catch of keepSessionAlive, never past
\* the fetch), and keepSessionAlive waits and starts the next attempt.
C2_AbsentObjectReturnsAndRetries ==
  [][(remote = Absent /\ ~EnvStep)
       => /\ <<pc, pc'>> \in AbsentPath
          /\ pc = "lg_check" => fileContent = Undefined]_vars

\* C2's case: an attempt that found no object has returned to the supervisor.
C2_Witness == remote = Absent /\ pc = "ks_restart"

\* C3: whenever an attempt has ended, by a return or by a throw, the
\* supervisor starts another one.
C3_SupervisorAlwaysRetries == (pc \in {"ks_catch", "ks_restart"}) ~> (pc = "read_send")

\* C3's case: two attempts threw out of a failing cleanup (each left its
\* browser open) and one more attempt has started.
C3_Witness == pc = "read_send" /\ open >= 2

\* C4 as claimed: AwaitingLogin is left only by the poll iteration whose URL
\* contains the confirmation substring, and that iteration leaves it.
C4_Original ==
  [][~EnvStep
       => /\ (pc \in AwaitPcs /\ pc' \notin AwaitPcs)
               => (pc = "cl_test" /\ Includes(url, TARGET_URL))
          /\ (pc = "cl_test" /\ Includes(url, TARGET_URL)) => pc' = "rf_guard"]_vars

\* C4, amended: the attempt enters the refresh loop only from the poll
\* iteration whose URL contains the confirmation substring, and the first
\* such iteration enters it; the only other way out of AwaitingLogin is a
\* navigation of the poll that fails, which ends the attempt.
C4_LoginPollAmended ==
  [][~EnvStep
       => /\ (pc \in AwaitPcs /\ pc' \in RefreshPcs)
               => (pc = "cl_test" /\ Includes(url, TARGET_URL))
          /\ (pc = "cl_test" /\ Includes(url, TARGET_URL)) => pc' = "rf_guard"
          /\ (pc = "cl_test" /\ ~Includes(url, TARGET_URL)) => pc' = "cl_sleep"
          /\ (pc \in AwaitPcs /\ pc' \notin AwaitPcs \cup RefreshPcs)
               => (pc = "cl_goto" /\ pc' = "lg_catch")]_vars

\* C4's case: the poll has just matched and the refresh loop is entered.
C4_Witness == pc = "rf_guard" /\ cycle = "none" /\ Includes(url, TARGET_URL)

\* C5 as claimed: no attempt that has ended leaves a browser open.
C5_Original == pc \in SupervisorPcs => open = 0

\* C5, amended: an attempt that launched a browser returns to the supervisor
\* only through the cleanup step, which closes the browser; the browser is
\* released when the close succeeds (a close that rejects throws to the
\* supervisor and may leave the browser open).
C5_CleanupAmended ==
  [][(~EnvStep /\ browser # "undefined" /\ pc \notin SupervisorPcs
        /\ pc' \in SupervisorPcs)
       => /\ pc = "lg_finally"
          /\ pc' = "ks_restart" => open' = open - 1
          /\ pc' = "ks_catch" => open' \in {open, open - 1}]_vars

\* C5's case: an attempt that launched a browser has ended and released it.
C5_Witness == pc = "ks_restart" /\ browser # "undefined" /\ open = 0


\* The snapshot a body holds: JSON.parse of its UTF-8 text.
SnapshotOf(file) == JsonParse(Utf8Decode(file.val))

\* C6: after a refresh cycle in which no step failed, the remote object holds
\* a snapshot equal to the page's localStorage (same keys, same values).
C6_Claim ==
  (pc = "rf_wait" /\ cycle = "ok")
    => (remote.some /\ SnapshotOf(remote) = [ok |-> TRUE, obj |-> storage])

\* What the code does keep of C6: the snapshot holds every entry of the
\* page's localStorage but the one under the key "__proto__".
SnapshotButProto ==
  (pc = "rf_wait" /\ cycle = "ok")
    => (remote.some
        /\ SnapshotOf(remote) = [ok |-> TRUE, obj |-> RemoveItem(storage, KeyProto)])

\* C7: the object uploadToS3 stores is the scratch file byte for byte, and
\* the text readS3File returns is the stored object byte for byte, however
\* the body stream cuts it into chunks.
C7_RoundTrip ==
  /\ (pc = "rf_token" /\ cycle = "ok") => (scratch.some /\ remote = scratch)
  /\ (pc = "lg_check" /\ fileContent.some)
       => (remote.some /\ Utf8Encode(fileContent.val) = remote.val)

\* C7's case: the text fetched is a snapshot this program wrote and uploaded
\* (it is not one of the initial objects), with a two-byte character in it.
C7_Witness ==
  /\ pc = "lg_check"
  /\ fileContent = Some(JsonStringify(SetItem(EmptyMap, KeySid, <<233>>)))

\* C8 as claimed: after the injection of a snapshot the page's localStorage
\* is exactly the snapshot, whatever it held before.
C8_Original ==
  [][(pc = "inject" /\ pc' = "cl_sleep" /\ JsonParse(fileContent.val).ok)
       => storage' = JsonParse(fileContent.val).obj]_vars

\* C8, amended: after the injection of a snapshot with N keys the page's
\* localStorage holds each of the N pairs of the snapshot, and every other
\* key it held before with the value it had: N pairs exactly only when it
\* held no other key.
C8_InjectAmended ==
  [][(pc = "inject" /\ pc' = "cl_sleep" /\ JsonParse(fileContent.val).ok)
       => LET snap == JsonParse(fileContent.val).obj IN
            /\ DOMAIN storage' = DOMAIN storage \cup DOMAIN snap
            /\ \A k \in DOMAIN snap : storage'[k] = snap[k]
            /\ \A k \in DOMAIN storage \ DOMAIN snap : storage'[k] = storage[k]]_vars

\* C8's case: a snapshot of at least one key has just been injected into a
\* page that held another key.
C8_Witness ==
  /\ pc = "cl_sleep"
  /\ url = WEBSITE_URL
  /\ JsonParse(fileContent.val).ok
  /\ DOMAIN JsonParse(fileContent.val).obj # {}
  /\ Cardinality(DOMAIN storage) > Cardinality(DOMAIN JsonParse(fileContent.val).obj)

\* The phase of the attempt at a statement, the fetch counted as the claim
\* counts it (in Restoring) or as a phase of its own.
Phase(p, fetch) ==
  IF p \in SupervisorPcs THEN "Supervisor"
  ELSE IF p \in FetchPcs THEN fetch
  ELSE IF p \in LaunchPcs THEN "Launching"
  ELSE IF p \in RestorePcs THEN "Restoring"
  ELSE IF p \in AwaitPcs THEN "AwaitingLogin"
  ELSE IF p \in RefreshPcs THEN "RefreshLoop"
  ELSE "Terminated"

\* The order of the phases as claimed.
ClaimedOrder ==
  {<<"Supervisor", "Launching">>, <<"Launching", "Restoring">>,
   <<"Restoring", "AwaitingLogin">>, <<"AwaitingLogin", "RefreshLoop">>,
   <<"Launching", "Terminated">>, <<"Restoring", "Terminated">>,
   <<"AwaitingLogin", "Terminated">>, <<"RefreshLoop", "Terminated">>,
   <<"Terminated", "Supervisor">>}

\* C9 as claimed: an attempt goes Launching, Restoring (the fetch of the
\* snapshot included), AwaitingLogin, RefreshLoop, Terminated, and the browser
\* is acquired before the snapshot is fetched.
C9_Original ==
  [][~EnvStep
       => /\ \/ Phase(pc, "Restoring") = Phase(pc', "Restoring")
             \/ <<Phase(pc, "Restoring"), Phase(pc', "Restoring")>> \in ClaimedOrder
          /\ pc' \in FetchPcs => browser' # "undefined"]_vars

\* The statements at which a phase is entered from the phase before it, the
\* fetch being the first phase.
PhaseEntries ==
  {<<"ks_call", "read_send">>, <<"lg_check", "launch">>,
   <<"configure", "goto_site">>, <<"inject", "cl_sleep">>,
   <<"cl_test", "rf_guard">>}

\* C9, amended: an attempt first fetches the snapshot, with no browser yet (a
\* missing snapshot ends the attempt there by a return), and then goes
\* Launching, Restoring, AwaitingLogin, RefreshLoop in this order, Terminated
\* being entered from any of them; each phase is entered from the last
\* statement of the phase before it.
C9_PhaseOrderAmended ==
  [][~EnvStep
       => /\ \/ Phase(pc, "Fetching") = Phase(pc', "Fetching")
             \/ <<pc, pc'>> \in PhaseEntries
             \/ <<pc, pc'>> = <<"lg_check", "ks_restart">>
             \/ /\ <<Phase(pc, "Fetching"), Phase(pc', "Fetching")>> \in ClaimedOrder
                /\ pc' = "lg_catch" \/ pc = "lg_finally"
          /\ pc' \in FetchPcs => browser' = "undefined"]_vars

\* C9's case: an attempt has fetched, launched, restored, awaited the login
\* and is in a refresh cycle.
C9_Witness == pc = "rf_reload" /\ browser = "browser" /\ fileContent.some

\* C10: uploadToS3 never raises to its caller: whatever fails in it, control
\* goes on at the statement after the call (the token read), not at the
\* caller's catch.
C10_Claim ==
  [][(pc \in UploadPcs /\ ~EnvStep) => pc' \in UploadPcs \cup {"rf_token"}]_vars

\* The statements of readS3File.
ReadPcs == {"read_send", "read_stream", "read_catch"}

\* C11: readS3File never raises to its caller: a rejected request and a
\* stream error both end in its catch, from which it returns undefined to
\* loginWithGoogle; a stream that ends returns the whole object as text.
C11_FetchNeverRaises ==
  [][(pc \in ReadPcs /\ ~EnvStep)
       => /\ pc' \in ReadPcs \cup {"lg_check"}
          /\ (pc = "read_send" /\ pc' # "read_stream") => pc' = "read_catch"
          /\ (pc = "read_stream" /\ pc' \notin {"read_stream", "lg_check"})
               => pc' = "read_catch"
          /\ pc = "read_catch" => (pc' = "lg_check" /\ fileContent' = Undefined)
          /\ (pc = "read_stream" /\ pc' = "lg_check")
               => (remote.some /\ fileContent' = Some(Utf8Decode(remote.val)))]_vars

\* C11's case: the object exists, the fetch failed (the request or the
\* stream) and readS3File has returned undefined.
C11_Witness == pc = "lg_check" /\ remote.some /\ ~fileContent.some

\* C13: in the refresh loop, as long as no step of a cycle fails and the page
\* stays open, the snapshot is captured and uploaded again and again: from
\* every statement of the loop a successful upload follows, unless a step
\* fails, the page is closed or the process is restarted.
C13_UploadsRecur ==
  (pc \in RefreshPcs)
    ~> \/ pc = "rf_token" /\ cycle = "ok"
       \/ cycle \in {"failed", "skipped"}
       \/ pc = "ks_call"

\* C13's case: the remote object is no longer the text this attempt fetched
\* (the attempt has uploaded already) and a later cycle sends another
\* snapshot.
C13_Witness ==
  /\ pc = "up_send"
  /\ cycle = "ok"
  /\ remote.some
  /\ remote # fileBuffer
  /\ Utf8Encode(fileContent.val) # remote.val

\* C14 as claimed: a navigation of the poll that fails does not take the
\* attempt out of AwaitingLogin.
C14_Original == [][(pc = "cl_goto" /\ ~EnvStep) => pc' \in AwaitPcs]_vars

\* C14, amended: checkLogin handles no failure itself: a navigation of the
\* poll that fails (as every navigation of a closed page does) takes the
\* attempt out of AwaitingLogin to the catch of loginWithGoogle and on to
\* its cleanup; AwaitingLogin is left in no other way but by the poll
\* iteration that finds the confirmation substring.
C14_PollFailureAmended ==
  [][~EnvStep
       => /\ (pc \in AwaitPcs /\ pc' \notin AwaitPcs)
               => \/ /\ pc = "cl_test"
                     /\ Includes(url, TARGET_URL)
                     /\ pc' = "rf_guard"
                  \/ /\ pc = "cl_goto"
                     /\ pc' = "lg_catch"
          /\ (pc = "cl_goto" /\ pageClosed) => pc' = "lg_catch"
          /\ pc = "lg_catch" => pc' = "lg_finally"]_vars

\* C14's case: a later iteration of the poll (the page is at a URL without
\* the confirmation substring) failed to navigate and the attempt is in the
\* catch of loginWithGoogle.
C14_Witness == pc = "lg_catch" /\ url \in PageUrls /\ ~Includes(url, TARGET_URL)

\* C15: when the fetched text is not parseable JSON, the injection step on an
\* open page can complete and go on to the login poll (the parse error is
\* caught and logged inside the page), and when it completes it has changed
\* nothing in the page's localStorage.
C15_ParseErrorDoesNotAbort ==
  (pc = "inject" /\ ~pageClosed /\ ~JsonParse(fileContent.val).ok)
    => /\ ENABLED (Inject /\ pc' = "cl_sleep" /\ storage' = storage)
       /\ ~ENABLED (Inject /\ pc' = "cl_sleep" /\ storage' # storage)

\* C15's case: a text that is no JSON has gone through the injection step
\* and the attempt is at the first wait of the login poll.
C15_Witness ==
  pc = "cl_sleep" /\ url = WEBSITE_URL /\ ~JsonParse(fileContent.val).ok

\* C16: an attempt returns at the check after the fetch only when the fetch
\* gave no text (the object is absent or the fetch failed); a fetch that
\* succeeded, whatever the text, goes on to launch the browser and navigate.
C16_Claim ==
  [][(pc = "lg_check" /\ ~EnvStep)
       => /\ pc' = "ks_restart" => fileContent = Undefined
          /\ fileContent.some => pc' = "launch"]_vars

\* What the code does keep of C16: a fetched text that is not empty goes on
\* to the launch, and the attempt returns there for no text and for the
\* empty text.
NonEmptyTextGoesOn ==
  [][(pc = "lg_check" /\ ~EnvStep)
       => /\ (fileContent.some /\ fileContent.val # <<>>) => pc' = "launch"
          /\ (~fileContent.some \/ fileContent.val = <<>>) => pc' = "ks_restart"]_vars

\* C17: the remote object is written by no statement but the upload of a
\* refresh cycle, and the refresh loop runs only in an attempt whose login
\* poll has found the confirmation substring: an attempt that ends before
\* leaves the remote object as it was.
C17_NoUploadBeforeLogin ==
  [][/\ remote' # remote
          => (pc = "up_send" /\ browser = "browser" /\ Includes(url, TARGET_URL))
     /\ (pc \notin RefreshPcs /\ pc' \in RefreshPcs)
          => (pc = "cl_test" /\ Includes(url, TARGET_URL))]_vars

\* C17's case: an attempt whose poll succeeded has uploaded.
C17_Witness ==
  /\ pc = "rf_token"
  /\ cycle = "ok"
  /\ remote = fileBuffer
  /\ Includes(url, TARGET_URL)

\* C18: the remote object changes only at the upload of a cycle in which no
\* step has failed, after that cycle's capture and with the scratch file
\* that cycle wrote from it, and it becomes that file; a reload, a capture or
\* a write that fails goes to the catch and from there to the wait, so the
\* cycle uploads nothing.
C18_UploadAfterCaptureAndWrite ==
  [][~EnvStep
       => /\ remote' # remote
               => /\ pc = "up_send"
                  /\ cycle = "ok"
                  /\ localStorageData.some
                  /\ scratch = Some(ScratchBytes(localStorageData.val))
                  /\ fileBuffer = scratch
                  /\ remote' = scratch
          /\ (pc \in {"rf_reload", "rf_capture", "rf_write"} /\ cycle' = "failed")
               => pc' = "rf_catch"
          /\ pc = "rf_catch" => (pc' = "rf_wait" /\ remote' = remote)]_vars

\* C18's case: the write of a cycle has failed while the scratch file still
\* holds the snapshot of an earlier cycle, which differs from the capture of
\* this one.
C18_Witness ==
  /\ pc = "rf_catch"
  /\ cycle = "failed"
  /\ localStorageData.some
  /\ scratch.some
  /\ scratch # Some(ScratchBytes(localStorageData.val))

\* C19: no step the program takes in the refresh loop leaves the loop: the
\* attempt neither returns nor throws, its browser stays open and held, and
\* once the page is closed it stays closed and each cycle returns at the
\* guard, with no reload and no upload.  Only a restart of the process ends
\* the loop.
C19_RefreshLoopNeverEnds ==
  [][(pc \in RefreshPcs /\ ~ProcessRestart)
       => /\ pc' \in RefreshPcs
          /\ browser' = browser
          /\ open' = open
          /\ pageClosed => pageClosed'
          /\ (pc = "rf_guard" /\ pageClosed)
               => (pc' = "rf_wait" /\ cycle' = "skipped" /\ remote' = remote)
          /\ (pc = "rf_wait" /\ cycle = "skipped") => pc' = "rf_guard"]_vars

\* C19's case: the page was closed, a cycle has returned at the guard and
\* the loop waits for the next one, the browser still open.
C19_Witness ==
  pc = "rf_wait" /\ cycle = "skipped" /\ pageClosed /\ browser = "browser" /\ open >= 1

\* C12: however the calls of getConfig interleave with the reads, loadConfig
\* runs once (as soon as one caller has called), every secret is read at
\* most once, configPromise is never rejected, and every caller receives
\* the same record: per secret the trimmed content, or null for a read
\* that failed.
C12_ConfigResolvedOnce ==
  /\ loadRuns <= 1
  /\ (\E c \in Callers : callers[c].st # "idle") => loadRuns = 1
  /\ \A s \in Secrets : readCount[s] <= 1
  /\ configPromise \in {"undefined", "pending", "fulfilled"}
  /\ \A c \in Callers : callers[c].st = "done"
       => /\ \A d \in Callers : callers[d].st = "done" => callers[d].got = callers[c].got
          /\ \A s \in Secrets :
               /\ secretRead[s].st = "done"
               /\ callers[c].got[s] = secretRead[s].val
               /\ callers[c].got[s] \in {Null, Some(<<118>>)}

\* C12's case: every caller has received the record, which has a null
\* field (a secret that could not be read) and a field with a value.
C12_Witness ==
  /\ \A c \in Callers : callers[c].st = "done"
  /\ \E s \in Secrets : callers[1].got[s] = Null
  /\ \E s \in Secrets : callers[1].got[s].some

\* C20 as claimed: at most one browser is open at every moment.
C20_Original == open <= 1

\* C20, amended: one attempt runs at a time and holds at most one browser,
\* from its launch to its cleanup; between two attempts and during the fetch
\* none is held.  The browsers open are the one the running attempt holds
\* and those that a rejected close of an earlier cleanup left open.
C20_OneHeldBrowserAmended ==
  /\ open = orphans + (IF browser = "browser" /\ pc \notin SupervisorPcs THEN 1 ELSE 0)
  /\ pc \in FetchPcs \cup {"launch"} => browser = "undefined"
  /\ pc \in {"new_page", "configure"} \cup PagePcs => browser = "browser"

\* C20's case: an earlier attempt's close was rejected and left its browser
\* open, and the attempt running now holds its own.
C20_Witness == pc \in PagePcs /\ browser = "browser" /\ orphans = 1 /\ open = 2

====
